---- MODULE Spec2Model ----
(***************************************************************************)
(* Model of the matching-and-ranking core of marketscrape-web              *)
(* (scraper/shop_class.py, scraper/utils.py).                              *)
(*                                                                         *)
(* Representation choices                                                  *)
(*  - A Python str is a sequence of one-character strings.                 *)
(*  - A Python float that carries money is an integer number of cents.     *)
(*  - A similarity (SequenceMatcher.ratio, 2*M/T) is a reduced fraction    *)
(*    [n, d]; a similarity threshold is an integer number of 1e-7 units    *)
(*    (One = 1.0), compared with the fraction by cross multiplication.     *)
(*    Float rounding noise of the accumulated ramp-down is not modelled.   *)
(*  - A Python dict is a sequence of <<key, value>> pairs in insertion     *)
(*    order with pairwise distinct keys.                                   *)
(*  - A raised exception is a record [exc |-> name]; a normal return has   *)
(*    exc = "none".                                                        *)
(***************************************************************************)
EXTENDS Integers, Sequences, FiniteSets, TLC

(***************************************************************************)
(* Generic helpers on sequences                                            *)
(***************************************************************************)
Range(s) == {s[i] : i \in DOMAIN s}

Min2(a, b) == IF a <= b THEN a ELSE b

\* mutant: the second argument is taken as it is
Max2_NoClamp(a, b) == b

Max2(a, b) == IF a >= b THEN a ELSE b

Abs(x) == IF x < 0 THEN -x ELSE x

RECURSIVE Gcd(_, _)
Gcd(a, b) == IF b = 0 THEN a ELSE Gcd(b, a % b)

\* all sequences over S of length 0..n
SeqUpTo(S, n) == UNION {[1..k -> S] : k \in 0..n}

(***************************************************************************)
(* Characters: the classes the code's str methods and regexes test         *)
(***************************************************************************)
\* str.lower on one character
LowerChar(c) ==
  CASE c = "A" -> "a"
    [] c = "B" -> "b"
    [] c = "C" -> "c"
    [] c = "X" -> "x"
    [] OTHER -> c

\* \s of the regexes and the whitespace str.strip removes
IsSpace(c) == c \in {" ", "\n", "\t"}

\* [A-Za-z0-9]
IsAlnum(c) ==
  c \in {"a", "b", "c", "x", "A", "B", "C", "X", "0", "1", "2", "3", "4",
         "5", "6", "7", "8", "9"}

\* string.punctuation
IsPunct(c) == c \in {"!", "#", "%", "&", ",", "-", ".", "$", "+", "/"}

\* str.lower
Lower(s) == [i \in DOMAIN s |-> LowerChar(s[i])]

RECURSIVE LStrip(_)
LStrip(s) == IF s # <<>> /\ IsSpace(Head(s)) THEN LStrip(Tail(s)) ELSE s

RECURSIVE RStrip(_)
RStrip(s) ==
  IF s # <<>> /\ IsSpace(s[Len(s)]) THEN RStrip(SubSeq(s, 1, Len(s) - 1))
  ELSE s

\* str.strip
Strip(s) == RStrip(LStrip(s))

\* str.translate(str.maketrans("", "", string.punctuation))
RemovePunct(s) == SelectSeq(s, LAMBDA c : ~IsPunct(c))


(***************************************************************************)
(* utils.clean_text                                                        *)
(***************************************************************************)
\* re.sub(r"[^A-Za-z0-9\s]+", " ", title): every maximal run of characters
\* that are neither alphanumeric nor whitespace becomes one space
RECURSIVE SubNonAlnum(_, _)
SubNonAlnum(s, inRun) ==
  IF s = <<>> THEN <<>>
  ELSE IF ~IsAlnum(Head(s)) /\ ~IsSpace(Head(s))
       THEN (IF inRun THEN <<>> ELSE <<" ">>) \o SubNonAlnum(Tail(s), TRUE)
       ELSE <<Head(s)>> \o SubNonAlnum(Tail(s), FALSE)

\* re.sub(r"\s+", " ", cleaned): every maximal run of whitespace becomes
\* one space
RECURSIVE SubSpaces(_, _)
SubSpaces(s, inRun) ==
  IF s = <<>> THEN <<>>
  ELSE IF IsSpace(Head(s))
       THEN (IF inRun THEN <<>> ELSE <<" ">>) \o SubSpaces(Tail(s), TRUE)
       ELSE <<Head(s)>> \o SubSpaces(Tail(s), FALSE)

\* mutant: the final strip is missing
clean_text_NoStrip(title) == SubSpaces(SubNonAlnum(title, FALSE), FALSE)

clean_text(title) == Strip(SubSpaces(SubNonAlnum(title, FALSE), FALSE))

(***************************************************************************)
(* difflib.SequenceMatcher(None, a, b).ratio(), as get_similarity uses it. *)
(* Indices are 0-based and ranges half open, as in difflib; a[i] of the    *)
(* code is a[i + 1] here.  The autojunk heuristic only acts on a second    *)
(* sequence of 200 or more elements and is outside the lengths modelled.   *)
(***************************************************************************)
\* length of the longest common run of a and b starting at a[i], b[j],
\* staying below ahi and bhi
RECURSIVE RunLen(_, _, _, _, _, _)
RunLen(a, b, i, j, ahi, bhi) ==
  IF i < ahi /\ j < bhi /\ a[i + 1] = b[j + 1]
  THEN 1 + RunLen(a, b, i + 1, j + 1, ahi, bhi)
  ELSE 0

\* SequenceMatcher.find_longest_match: the longest block; of those the one
\* starting earliest in a; of those the one starting earliest in b.
\* <<alo, blo, 0>> when nothing matches.
find_longest_match(a, b, alo, ahi, blo, bhi) ==
  LET starts == {<<i, j>> \in (alo..(ahi - 1)) \X (blo..(bhi - 1)) :
                   a[i + 1] = b[j + 1]}
  IN  IF starts = {} THEN <<alo, blo, 0>>
      ELSE LET k    == CHOOSE n \in {RunLen(a, b, p[1], p[2], ahi, bhi) :
                                      p \in starts} :
                         \A p \in starts :
                           RunLen(a, b, p[1], p[2], ahi, bhi) <= n
               best == {p \in starts :
                          RunLen(a, b, p[1], p[2], ahi, bhi) = k}
               i    == CHOOSE x \in {p[1] : p \in best} :
                         \A p \in best : x <= p[1]
               j    == CHOOSE y \in {p[2] : p \in {q \in best : q[1] = i}} :
                         \A p \in best : p[1] = i => y <= p[2]
           IN  <<i, j, k>>

\* SequenceMatcher.get_matching_blocks, summed: total size of the blocks
RECURSIVE MatchedChars(_, _, _, _, _, _)
MatchedChars(a, b, alo, ahi, blo, bhi) ==
  LET m == find_longest_match(a, b, alo, ahi, blo, bhi)
      i == m[1]
      j == m[2]
      k == m[3]
  IN  IF k = 0 THEN 0
      ELSE k
           + (IF alo < i /\ blo < j
              THEN MatchedChars(a, b, alo, i, blo, j) ELSE 0)
           + (IF i + k < ahi /\ j + k < bhi
              THEN MatchedChars(a, b, i + k, ahi, j + k, bhi) ELSE 0)

\* a float that is the quotient n / d, kept as a reduced fraction
Frac(n, d) == LET g == Gcd(n, d) IN [n |-> n \div g, d |-> d \div g]

\* SequenceMatcher.ratio: 2.0 * matches / length, 1.0 when length is 0
ratio(a, b) ==
  LET length == Len(a) + Len(b)
  IN  IF length = 0 THEN Frac(1, 1)
      ELSE Frac(2 * MatchedChars(a, b, 0, Len(a), 0, Len(b)), length)

\* EbayScraper.get_similarity
get_similarity(string1, string2) ==
  ratio(RemovePunct(Strip(Lower(string1))), RemovePunct(Strip(Lower(string2))))

(***************************************************************************)
(* Python values whose type decides how they compare and format            *)
(***************************************************************************)
\* a float holding an amount of money, in cents
PyFloat(c) == [t |-> "float", v |-> c]

\* a str
PyStr(chars) == [t |-> "str", v |-> chars]

\* ord(c) for the characters a formatted amount is made of
Ord(c) ==
  CASE c = "," -> 44 [] c = "." -> 46 [] c = "0" -> 48 [] c = "1" -> 49
    [] c = "2" -> 50 [] c = "3" -> 51 [] c = "4" -> 52 [] c = "5" -> 53
    [] c = "6" -> 54 [] c = "7" -> 55 [] c = "8" -> 56 [] c = "9" -> 57

\* str < str: lexicographic by code point
RECURSIVE StrLess(_, _)
StrLess(a, b) ==
  IF b = <<>> THEN FALSE
  ELSE IF a = <<>> THEN TRUE
  ELSE IF Head(a) # Head(b) THEN Ord(Head(a)) < Ord(Head(b))
  ELSE StrLess(Tail(a), Tail(b))

\* x < y of two floats or of two strs
PyLess(x, y) ==
  IF x.t = "float" /\ y.t = "float" THEN x.v < y.v
  ELSE IF x.t = "str" /\ y.t = "str" THEN StrLess(x.v, y.v)
  ELSE FALSE

DigitChar(n) ==
  CASE n = 0 -> "0" [] n = 1 -> "1" [] n = 2 -> "2" [] n = 3 -> "3"
    [] n = 4 -> "4" [] n = 5 -> "5" [] n = 6 -> "6" [] n = 7 -> "7"
    [] n = 8 -> "8" [] n = 9 -> "9"

\* the decimal digits of n >= 0 with a comma before every group of three
RECURSIVE Grouped(_)
Grouped(n) ==
  IF n < 10 THEN <<DigitChar(n)>>
  ELSE IF n < 100 THEN <<DigitChar(n \div 10), DigitChar(n % 10)>>
  ELSE IF n < 1000
       THEN <<DigitChar(n \div 100), DigitChar((n \div 10) % 10),
              DigitChar(n % 10)>>
       ELSE Grouped(n \div 1000) \o <<",">>
            \o <<DigitChar((n \div 100) % 10), DigitChar((n \div 10) % 10),
                 DigitChar(n % 10)>>

\* f"{x:,.2f}" of a non-negative float
FormatMoney(x) ==
  PyStr(Grouped(x.v \div 100)
        \o <<".", DigitChar((x.v \div 10) % 10), DigitChar(x.v % 10)>>)

(***************************************************************************)
(* utils.reject_outliers.  The sample is a sequence of integers (cents);   *)
(* medians of even-sized samples are half-integers, so deviations are      *)
(* kept in quarter units (x4) and the multiplier m is a fraction [n, d].   *)
(***************************************************************************)
\* k-th smallest element of a non-empty sequence (k = 1 is the minimum):
\* element k of the sorted sample
KthSmallest(s, k) ==
  CHOOSE v \in Range(s) :
    /\ Cardinality({i \in DOMAIN s : s[i] < v}) < k
    /\ k <= Cardinality({i \in DOMAIN s : s[i] <= v})

\* 2 * np.median(s) for a non-empty s: the middle element, or the mean of
\* the two middle elements
Median2(s) ==
  CHOOSE r \in {IF Len(a) % 2 = 1
                THEN 2 * KthSmallest(a, (Len(a) + 1) \div 2)
                ELSE KthSmallest(a, Len(a) \div 2)
                     + KthSmallest(a, Len(a) \div 2 + 1) : a \in {s}} : TRUE

\* 4 * np.abs(data_array - np.median(data_array)), the median taken once
Distribution4(data) ==
  CHOOSE r \in {[i \in DOMAIN data |-> 2 * Abs(2 * data[i] - median2)] :
                  median2 \in {Median2(data)}} : TRUE

\* m_deviation = np.median(distribution), times 4
MDeviation4(data) == Median2(Distribution4(data)) \div 2

\* np.isclose(m_deviation, 0): |m_deviation| <= 1e-8; on a sample of whole
\* cents the deviation is a multiple of 1/4
IsCloseToZero4(x4) == x4 = 0

\* mutant: the comparison with m is strict
IsOutlier_Strict(data, m, i) ==
  LET d4   == Distribution4(data)[i]
      mad4 == MDeviation4(data)
  IN  IF IsCloseToZero4(mad4)
      THEN d4 * m.d > 4 * m.n
      ELSE d4 * m.d > m.n * mad4

\* the test np.where applies to position i (1-based here)
IsOutlier(data, m, i) ==
  LET d4   == Distribution4(data)[i]
      mad4 == MDeviation4(data)
  IN  IF IsCloseToZero4(mad4)
      THEN d4 * m.d >= 4 * m.n          \* distribution >= m
      ELSE d4 * m.d >= m.n * mad4       \* distribution / m_deviation >= m

\* np.where(cond)[0].tolist(): the 0-based positions, ascending
reject_outliers(data, m) ==
  IF Len(data) = 0 THEN <<>>
  ELSE LET idx == [i \in 1..Len(data) |-> i - 1]
       IN  SelectSeq(idx, LAMBDA j : IsOutlier(data, m, j + 1))

(***************************************************************************)
(* The fetched page (self.soup) and its extraction.  A page is a sequence  *)
(* of result rows; "has" names the elements the row's markup contains.     *)
(***************************************************************************)
IsDigit(c) == c \in {"0", "1", "2", "3", "4", "5", "6", "7", "8", "9"}

DigitVal(c) ==
  CASE c = "0" -> 0 [] c = "1" -> 1 [] c = "2" -> 2 [] c = "3" -> 3
    [] c = "4" -> 4 [] c = "5" -> 5 [] c = "6" -> 6 [] c = "7" -> 7
    [] c = "8" -> 8 [] c = "9" -> 9

\* length of the run of digits of s starting at 1-based position p
RECURSIVE DigitRun(_, _)
DigitRun(s, p) ==
  IF p <= Len(s) /\ IsDigit(s[p]) THEN 1 + DigitRun(s, p + 1) ELSE 0

\* [0-9]+ sep [0-9]+ matched at position p: the length of the match, or 0
MatchNumAt(s, p, sep) ==
  LET l1 == DigitRun(s, p)
  IN  IF l1 > 0 /\ p + l1 <= Len(s) /\ s[p + l1] = sep
         /\ DigitRun(s, p + l1 + 1) > 0
      THEN l1 + 1 + DigitRun(s, p + l1 + 1)
      ELSE 0

\* re.search(r"([0-9]+\.[0-9]+)|([0-9]+,[0-9]+)", text).group(0), or <<>>
\* when there is no match: leftmost position, first alternative first
PriceMatch(text) ==
  LET hits == {p \in DOMAIN text :
                 MatchNumAt(text, p, ".") > 0 \/ MatchNumAt(text, p, ",") > 0}
  IN  IF hits = {} THEN <<>>
      ELSE LET p == CHOOSE x \in hits : \A y \in hits : x <= y
               l == IF MatchNumAt(text, p, ".") > 0
                    THEN MatchNumAt(text, p, ".")
                    ELSE MatchNumAt(text, p, ",")
           IN  SubSeq(text, p, p + l - 1)

\* str.replace(",", "")
RemoveCommas(s) == SelectSeq(s, LAMBDA c : c # ",")

RECURSIVE DigitsToInt(_)
DigitsToInt(s) ==
  IF s = <<>> THEN 0
  ELSE 10 * DigitsToInt(SubSeq(s, 1, Len(s) - 1)) + DigitVal(s[Len(s)])

\* float(value) in cents, for digits with an optional "." and at most two
\* decimals (the texts modelled); -1 stands for ValueError
FloatCents(s) ==
  LET l1   == DigitRun(s, 1)
      rest == SubSeq(s, l1 + 1, Len(s))
  IN  IF l1 = 0 THEN -1
      ELSE IF rest = <<>> THEN 100 * DigitsToInt(SubSeq(s, 1, l1))
      ELSE IF Head(rest) = "." /\ Len(rest) <= 3
              /\ DigitRun(rest, 2) = Len(rest) - 1
           THEN 100 * DigitsToInt(SubSeq(s, 1, l1))
                + (IF Len(rest) = 1 THEN 0
                   ELSE IF Len(rest) = 2 THEN 10 * DigitVal(rest[2])
                   ELSE 10 * DigitVal(rest[2]) + DigitVal(rest[3]))
           ELSE -1

\* the texts of the elements find_all returns for one class, in page order
Elements(soup, cls) ==
  LET rows == SelectSeq(soup, LAMBDA r : cls \in r.has)
  IN  [i \in DOMAIN rows |-> rows[i][cls]]

get_product_title(soup) == Elements(soup, "title")

\* rows whose price text has no match are skipped
get_product_price(soup) ==
  LET texts   == Elements(soup, "price")
      matched == SelectSeq(texts, LAMBDA t : PriceMatch(t) # <<>>)
  IN  [i \in DOMAIN matched |-> FloatCents(RemoveCommas(PriceMatch(matched[i])))]

get_product_condition(soup) == Elements(soup, "condition")

\* first 1-based position at which pat occurs in s, 0 when it does not
FindSub(s, pat) ==
  LET hits == {p \in 1..(Len(s) - Len(pat) + 1) :
                 SubSeq(s, p, p + Len(pat) - 1) = pat}
  IN  IF hits = {} THEN 0 ELSE CHOOSE x \in hits : \A y \in hits : x <= y

\* re.search(r"([0-9]+.*[0-9])|(Free)|(not specified)", text).group(1), or
\* <<>> when group 1 did not take part in the match: group 1 spans from the
\* first digit to the last digit of the text when these are two different
\* characters, and wins when it starts left of the two literal alternatives
ShippingGroup1(text) ==
  LET ds    == {p \in DOMAIN text : IsDigit(text[p])}
      first == CHOOSE x \in ds : \A y \in ds : x <= y
      last  == CHOOSE x \in ds : \A y \in ds : x >= y
      free  == FindSub(text, <<"F", "r", "e", "e">>)
      nspec == FindSub(text, <<"n", "o", "t", " ", "s", "p", "e", "c", "i",
                               "f", "i", "e", "d">>)
  IN  IF Cardinality(ds) < 2 THEN <<>>
      ELSE IF (free # 0 /\ free < first) \/ (nspec # 0 /\ nspec < first)
           THEN <<>>
           ELSE SubSeq(text, first, last)

\* float(price) raises ValueError on some shipping element: the error leaves
\* get_product_shipping, get_product_info and listing_product_similarity
ShippingRaises(soup) ==
  \E i \in DOMAIN Elements(soup, "shipping") :
    \E g \in {ShippingGroup1(Elements(soup, "shipping")[i])} :
      g # <<>> /\ FloatCents(RemoveCommas(g)) = -1

get_product_shipping(soup) ==
  LET texts == Elements(soup, "shipping")
  IN  [i \in DOMAIN texts |->
         IF ShippingGroup1(texts[i]) = <<>> THEN 0
         ELSE FloatCents(RemoveCommas(ShippingGroup1(texts[i])))]

\* str.replace("from ", "")
RECURSIVE RemoveFrom(_)
RemoveFrom(s) ==
  IF s = <<>> THEN <<>>
  ELSE IF Len(s) >= 5 /\ SubSeq(s, 1, 5) = <<"f", "r", "o", "m", " ">>
       THEN RemoveFrom(SubSeq(s, 6, Len(s)))
       ELSE <<Head(s)>> \o RemoveFrom(Tail(s))

get_product_country(soup) ==
  LET texts == Elements(soup, "country")
  IN  [i \in DOMAIN texts |-> RemoveFrom(texts[i])]

\* mutant: the filter starts one candidate late
removal_threshold_Late == 100 + 1

removal_threshold == 100

\* the multiplier remove_outliers passes: m = 1.5
OutlierM == [n |-> 3, d |-> 2]

\* [x for i, x in enumerate(xs) if i not in outlier_indices]
DropIndices(xs, outlier_indices) ==
  LET keep == SelectSeq([i \in 1..Len(xs) |-> i],
                        LAMBDA i : (i - 1) \notin Range(outlier_indices))
  IN  [k \in DOMAIN keep |-> xs[keep[k]]]

\* EbayScraper.remove_outliers: the five lists as a 5-tuple
remove_outliers(titles, prices, shipping, countries, conditions) ==
  IF Len(titles) >= removal_threshold
  THEN CHOOSE r \in
         { << DropIndices(titles, outlier_indices),
              DropIndices(prices, outlier_indices),
              DropIndices(shipping, outlier_indices),
              DropIndices(countries, outlier_indices),
              DropIndices(conditions, outlier_indices) >> :
           outlier_indices \in {reject_outliers(prices, OutlierM)} } : TRUE
  ELSE <<titles, prices, shipping, countries, conditions>>

\* EbayScraper.get_product_info: zip stops at the shortest list
get_product_info(soup) ==
  LET l == remove_outliers(get_product_title(soup), get_product_price(soup),
                           get_product_shipping(soup),
                           get_product_country(soup),
                           get_product_condition(soup))
      n == Min2(Len(l[1]), Min2(Len(l[2]), Min2(Len(l[3]),
             Min2(Len(l[4]), Len(l[5])))))
  IN  [i \in 1..n |->
         [title     |-> clean_text(Lower(l[1][i])),
          price     |-> PyFloat(l[2][i]),
          shipping  |-> PyFloat(l[3][i]),
          country   |-> l[4][i],
          condition |-> l[5][i]]]

(***************************************************************************)
(* Results of a call, and the dict operations the code uses                *)
(***************************************************************************)
Raise(e) == [exc |-> e, value |-> <<>>]

Return(v) == [exc |-> "none", value |-> v]

Keys(d) == [i \in DOMAIN d |-> d[i][1]]

Values(d) == [i \in DOMAIN d |-> d[i][2]]

HasKey(d, k) == \E i \in DOMAIN d : d[i][1] = k

\* d[k] of a dict that has the key
Get(d, k) == d[CHOOSE i \in DOMAIN d : d[i][1] = k][2]

\* d[k] = v: a present key keeps its position and takes the new value, a
\* new key is added last
DictSet(d, k, v) ==
  IF HasKey(d, k)
  THEN [i \in DOMAIN d |-> IF d[i][1] = k THEN <<k, v>> ELSE d[i]]
  ELSE Append(d, <<k, v>>)

(***************************************************************************)
(* Thresholds and similarities                                             *)
(***************************************************************************)
\* the threshold 1.0 in threshold units (1e-7)
One == 10 * 1000 * 1000

\* similarity >= similarity_threshold
SimGE(sim, th) == sim.n * One >= th * sim.d

\* a["similarity"] > b["similarity"]
SimGreater(x, y) == x.n * y.d > y.n * x.d

\* a["similarity"] == b["similarity"]
SimEq(x, y) == x.n * y.d = y.n * x.d

(***************************************************************************)
(* EbayScraper.filter_products_by_similarity                               *)
(***************************************************************************)
\* mutant: only the upper end of the range is checked
ValidThreshold_UpperOnly(th) == th <= One

\* not (0 <= similarity_threshold <= 1) is what raises
ValidThreshold(th) == 0 <= th /\ th <= One

\* mutant: the comparison with the threshold is strict
FilterStep_Strict(filtered_products, product, target_title, th) ==
  LET similarity == get_similarity(product.title, target_title)
  IN  IF similarity.n * One > th * similarity.d
      THEN DictSet(filtered_products, product.title,
                   [price      |-> product.price,
                    shipping   |-> product.shipping,
                    country    |-> product.country,
                    condition  |-> product.condition,
                    similarity |-> similarity])
      ELSE filtered_products

\* one iteration of the loop over product_info
FilterStep(filtered_products, product, target_title, th) ==
  LET similarity == get_similarity(product.title, target_title)
  IN  IF SimGE(similarity, th)
      THEN DictSet(filtered_products, product.title,
                   [price      |-> product.price,
                    shipping   |-> product.shipping,
                    country    |-> product.country,
                    condition  |-> product.condition,
                    similarity |-> similarity])
      ELSE filtered_products

RECURSIVE FilterLoop(_, _, _, _)
FilterLoop(filtered_products, product_info, target_title, th) ==
  IF product_info = <<>> THEN filtered_products
  ELSE FilterLoop(FilterStep(filtered_products, Head(product_info),
                             target_title, th),
                  Tail(product_info), target_title, th)

filter_products_by_similarity(product_info, target_title, th) ==
  IF ~ValidThreshold(th) THEN Raise("InvalidSimilarityThreshold")
  ELSE Return(FilterLoop(<<>>, product_info, target_title, th))

\* EbayScraper.listing_product_similarity on the loaded page
listing_product_similarity(soup, title, th) ==
  IF ShippingRaises(soup) THEN Raise("ValueError")
  ELSE filter_products_by_similarity(get_product_info(soup), Lower(title), th)

(***************************************************************************)
(* EbayScraper.lowest_price_highest_similarity                             *)
(***************************************************************************)
\* the first loop: the item kept in max_similarity_item
RECURSIVE MaxSimilarityItem(_, _)
MaxSimilarityItem(best, items) ==
  IF items = <<>> THEN best
  ELSE MaxSimilarityItem(
         IF SimGreater(Head(items).similarity, best.similarity)
         THEN Head(items) ELSE best,
         Tail(items))

\* mutant: the price tie-break is missing, the first pair of the tied set
\* is returned
MinByPrice_First(best, pairs) == best

\* min(pairs, key=lambda x: x[1]["price"]): the first pair no later pair
\* is strictly below
RECURSIVE MinByPrice(_, _)
MinByPrice(best, pairs) ==
  IF pairs = <<>> THEN best
  ELSE MinByPrice(
         IF PyLess(Head(pairs)[2].price, best[2].price)
         THEN Head(pairs) ELSE best,
         Tail(pairs))

\* the statements after the emptiness check, on a non-empty dict
SelectBest(d) ==
  LET max_similarity_item == MaxSimilarityItem(d[1][2], Tail(Values(d)))
      max_similar_items ==
        SelectSeq(d, LAMBDA e : SimEq(e[2].similarity,
                                      max_similarity_item.similarity))
  IN  MinByPrice(Head(max_similar_items), Tail(max_similar_items))

\* mutant: the emptiness check is missing, min() of no items raises
lowest_price_highest_similarity_NoCheck(d) ==
  IF d = <<>> THEN Raise("ValueError") ELSE Return(SelectBest(d))

lowest_price_highest_similarity(d) ==
  IF d = <<>> THEN Raise("NoProductsFound") ELSE Return(SelectBest(d))

(***************************************************************************)
(* EbayScraper.construct_candidates                                        *)
(***************************************************************************)
\* mutant: the similarities are left out of the length check
LengthsAgree_FiveLists(ds, ps, ss, cs, ks, sims) ==
  Cardinality({Len(ds), Len(ps), Len(ss), Len(cs), Len(ks)}) = 1

\* len(lengths) != 1 is what raises
LengthsAgree(ds, ps, ss, cs, ks, sims) ==
  Cardinality({Len(ds), Len(ps), Len(ss), Len(cs), Len(ks), Len(sims)}) = 1

\* mutant: a description that is already a key keeps its first entry
ConstructStep_KeepFirst(candidates, ds, ps, ss, cs, ks, sims, i) ==
  IF HasKey(candidates, ds[i]) THEN candidates
  ELSE Append(candidates,
              <<ds[i], [price      |-> ps[i],
                        shipping   |-> ss[i],
                        country    |-> cs[i],
                        condition  |-> ks[i],
                        similarity |-> sims[i]]>>)

\* one iteration of the loop over the zipped lists, at position i
ConstructStep(candidates, ds, ps, ss, cs, ks, sims, i) ==
  DictSet(candidates, ds[i],
          [price      |-> ps[i],
           shipping   |-> ss[i],
           country    |-> cs[i],
           condition  |-> ks[i],
           similarity |-> sims[i]])

RECURSIVE ConstructLoop(_, _, _, _, _, _, _, _)
ConstructLoop(candidates, ds, ps, ss, cs, ks, sims, i) ==
  IF i > Len(ds) THEN candidates
  ELSE ConstructLoop(ConstructStep(candidates, ds, ps, ss, cs, ks, sims, i),
                     ds, ps, ss, cs, ks, sims, i + 1)

construct_candidates(ds, ps, ss, cs, ks, sims) ==
  IF ~LengthsAgree(ds, ps, ss, cs, ks, sims) THEN Raise("InvalidDataFormat")
  ELSE Return(ConstructLoop(<<>>, ds, ps, ss, cs, ks, sims, 1))

(***************************************************************************)
(* State                                                                   *)
(***************************************************************************)
VARIABLES
  op,                \* the operation that was called
  args,              \* its arguments
  ret,               \* its result: Pending, Return(v) or Raise(e)
  pc,                \* position inside the operation
  work,              \* loop state of filter / construct_candidates
  soup,              \* self.soup: the rows of the page last fetched
  page_number,       \* find_viable_product: the loop variable
  ramp_down,         \* find_viable_product: the parameter, updated in place
  consecutively_empty,
  filtered_prices_descriptions,
  descriptions, prices, shipping, countries, conditions, similarities,
  fetch_log,         \* history: one record per create_url call
  filter_log         \* history: one record per listing_product_similarity call

search_vars ==
  <<soup, page_number, ramp_down, consecutively_empty,
    filtered_prices_descriptions, descriptions, prices, shipping, countries,
    conditions, similarities, fetch_log, filter_log>>

vars == <<op, args, ret, pc, work, search_vars>>

Pending == [exc |-> "pending", value |-> <<>>]

(***************************************************************************)
(* find_viable_product: constants of the code                              *)
(***************************************************************************)
\* mutant: one page more is scanned
NumPages_OneMore == 5 + 1

\* range(5)
NumPages == 5

\* similarity_threshold = 0.35
BaseThreshold == (7 * One) \div 20

\* ramp_down += 0.05
RampStep == One \div 20

\* if consecutively_empty == 2: break
EmptyCap == 2

(***************************************************************************)
(* The environment of a search: what the fetch collaborator may return     *)
(***************************************************************************)
AllElements == {"title", "price", "shipping", "country", "condition"}

RawRow(t, p, s, c, k) ==
  [title |-> t, price |-> p, shipping |-> s, country |-> c, condition |-> k,
   has |-> AllElements]

TxtFree == <<"F", "r", "e", "e">>
TxtFromUS == <<"f", "r", "o", "m", " ", "U", "S">>
TxtNew == <<"N", "e", "w">>
TxtUsed == <<"U", "s", "e", "d">>

\* "ABC!" at $20.00: normalises to "abc"
RowExact ==
  RawRow(<<"A", "B", "C", "!">>, <<"$", "2", "0", ".", "0", "0">>,
         TxtFree, TxtFromUS, TxtNew)

\* "ab" at $10.00
RowNear ==
  RawRow(<<"a", "b">>, <<"$", "1", "0", ".", "0", "0">>,
         <<"+", "$", "2", ".", "5", "0">>, <<"U", "S">>, TxtUsed)

\* "abc" again, at $1,000.00
RowExactDear ==
  RawRow(<<"a", "b", "c">>, <<"$", "1", ",", "0", "0", "0", ".", "0", "0">>,
         <<"+", "$", "1", "2", ".", "5", "0">>, TxtFromUS, TxtUsed)

\* "axxx" at $5.00: similarity 2/7 to "abc"
RowWeak ==
  RawRow(<<"a", "x", "x", "x">>, <<"$", "5", ".", "0", "0">>,
         TxtFree, <<"U", "S">>, TxtNew)

\* "xx" at $7.50: similarity 0 to "abc"
RowNone ==
  RawRow(<<"x", "x">>, <<"$", "7", ".", "5", "0">>,
         TxtFree, TxtFromUS, TxtNew)

\* "a-b c" whose price element has no number
RowNoPrice ==
  RawRow(<<"a", "-", "b", " ", "c">>, <<"T", "a", "p">>,
         TxtFree, <<"U", "S">>, TxtUsed)

PagePool ==
  << <<>>,
     <<RowExact, RowNear, RowExactDear>>,
     <<RowWeak>>,
     <<RowNone>>,
     <<RowNoPrice, RowExact, RowNear>>,
     <<RowNear, RowWeak>> >>

\* how many of the pages of PagePool the fetch collaborator may return
NumPageKinds == 5

Pages == {PagePool[i] : i \in 1..Min2(NumPageKinds, Len(PagePool))}

\* the titles searched for
Titles == { <<"A", "b", "c">> }

\* the initial ramp_down values a caller passes: 0.0 (views.py) and 0.30
RampDowns == {0, 6 * RampStep}

(***************************************************************************)
(* find_viable_product, one action per step of its body                    *)
(***************************************************************************)
SearchInit ==
  /\ op = "find_viable_product"
  /\ args \in [title : Titles, ramp_down : RampDowns]
  /\ ret = Pending
  /\ pc = "create_url"
  /\ work = [i |-> 0, acc |-> <<>>]
  /\ soup = <<>>
  /\ page_number = 0
  /\ ramp_down = args.ramp_down
  /\ consecutively_empty = 0
  /\ filtered_prices_descriptions = <<>>
  /\ descriptions = <<>>
  /\ prices = <<>>
  /\ shipping = <<>>
  /\ countries = <<>>
  /\ conditions = <<>>
  /\ similarities = <<>>
  /\ fetch_log = <<>>
  /\ filter_log = <<>>

\* mutant: self.start is left at the first page
CreateUrl_SamePage ==
  /\ op = "find_viable_product" /\ pc = "create_url"
  /\ \E page \in Pages :
       /\ soup' = page
       /\ fetch_log' = Append(fetch_log, [start |-> 0, ok |-> TRUE,
                                          rows |-> Len(page)])
  /\ pc' = "base"
  /\ UNCHANGED <<op, args, ret, work, page_number, ramp_down,
                 consecutively_empty, filtered_prices_descriptions,
                 descriptions, prices, shipping, countries, conditions,
                 similarities, filter_log>>

\* self.create_url() returns: the page of index page_number is loaded
CreateUrl ==
  /\ op = "find_viable_product" /\ pc = "create_url"
  /\ \E page \in Pages :
       /\ soup' = page
       /\ fetch_log' = Append(fetch_log, [start |-> page_number, ok |-> TRUE,
                                          rows |-> Len(page)])
  /\ pc' = "base"
  /\ UNCHANGED <<op, args, ret, work, page_number, ramp_down,
                 consecutively_empty, filtered_prices_descriptions,
                 descriptions, prices, shipping, countries, conditions,
                 similarities, filter_log>>

\* mutant: the failed fetch is swallowed and treated as a page without rows
CreateUrlFails_Swallowed ==
  /\ op = "find_viable_product" /\ pc = "create_url"
  /\ fetch_log' = Append(fetch_log, [start |-> page_number, ok |-> FALSE,
                                     rows |-> 0])
  /\ soup' = <<>>
  /\ pc' = "base"
  /\ UNCHANGED <<op, args, ret, work, page_number, ramp_down,
                 consecutively_empty, filtered_prices_descriptions,
                 descriptions, prices, shipping, countries, conditions,
                 similarities, filter_log>>

\* self.create_url() raises ScraperRequestError (utils.create_soup); the
\* call is outside every try block
CreateUrlFails ==
  /\ op = "find_viable_product" /\ pc = "create_url"
  /\ fetch_log' = Append(fetch_log, [start |-> page_number, ok |-> FALSE,
                                     rows |-> 0])
  /\ ret' = Raise("ScraperRequestError")
  /\ pc' = "done"
  /\ UNCHANGED <<op, args, work, soup, page_number, ramp_down,
                 consecutively_empty, filtered_prices_descriptions,
                 descriptions, prices, shipping, countries, conditions,
                 similarities, filter_log>>

LogFilter(th, r) ==
  Append(filter_log, [page |-> page_number, threshold |-> th,
                      exc |-> r.exc, value |-> r.value])

\* mutant: no handler around the first attempt, an empty result raises
\* NoProductsFound out of the search
BaseFilter_NoHandler ==
  /\ op = "find_viable_product" /\ pc = "base"
  /\ \E r \in {listing_product_similarity(soup, args.title, BaseThreshold)} :
         /\ filter_log' = LogFilter(BaseThreshold, r)
         /\ IF r.exc # "none"
            THEN /\ ret' = r
                 /\ pc' = "done"
                 /\ UNCHANGED filtered_prices_descriptions
            ELSE IF r.value = <<>>
            THEN /\ ret' = Raise("NoProductsFound")
                 /\ pc' = "done"
                 /\ UNCHANGED filtered_prices_descriptions
            ELSE /\ filtered_prices_descriptions' = r.value
                 /\ pc' = "accumulate"
                 /\ ret' = ret
  /\ UNCHANGED <<op, args, work, soup, page_number, ramp_down,
                 consecutively_empty, descriptions, prices, shipping,
                 countries, conditions, similarities, fetch_log>>

\* the try block: the attempt at similarity_threshold = 0.35; an empty
\* result raises NoProductsFound, whose handler resets the loop state
BaseFilter ==
  /\ op = "find_viable_product" /\ pc = "base"
  /\ \E r \in {listing_product_similarity(soup, args.title, BaseThreshold)} :
         /\ filter_log' = LogFilter(BaseThreshold, r)
         /\ IF r.exc # "none"
            THEN /\ ret' = r
                 /\ pc' = "done"
                 /\ UNCHANGED <<filtered_prices_descriptions,
                                consecutively_empty>>
            ELSE IF r.value = <<>>
            THEN /\ consecutively_empty' = 0
                 /\ filtered_prices_descriptions' = <<>>
                 /\ pc' = "ramp"
                 /\ ret' = ret
            ELSE /\ filtered_prices_descriptions' = r.value
                 /\ pc' = "accumulate"
                 /\ UNCHANGED <<ret, consecutively_empty>>
  /\ UNCHANGED <<op, args, work, soup, page_number, ramp_down, descriptions,
                 prices, shipping, countries, conditions, similarities,
                 fetch_log>>

\* one iteration of "while not filtered_prices_descriptions"
RampDown ==
  /\ op = "find_viable_product" /\ pc = "ramp"
  /\ ramp_down' = ramp_down + RampStep
  /\ \E th \in {Max2(0, BaseThreshold - ramp_down')} :
     \E r \in {listing_product_similarity(soup, args.title, th)} :
         /\ filter_log' = LogFilter(th, r)
         /\ IF r.exc # "none"
            THEN /\ ret' = r
                 /\ pc' = "done"
                 /\ UNCHANGED <<filtered_prices_descriptions,
                                consecutively_empty>>
            ELSE /\ filtered_prices_descriptions' = r.value
                 /\ ret' = ret
                 /\ IF consecutively_empty = EmptyCap
                    THEN /\ pc' = "accumulate"
                         /\ UNCHANGED consecutively_empty
                    ELSE IF r.value # <<>>
                    THEN /\ consecutively_empty' = 0
                         /\ pc' = "accumulate"
                    ELSE /\ consecutively_empty' = consecutively_empty + 1
                         /\ pc' = "ramp"
  /\ UNCHANGED <<op, args, work, soup, page_number, descriptions, prices,
                 shipping, countries, conditions, similarities, fetch_log>>

\* mutant: the titles of a page are put in front of the accumulated titles
Accumulate_TitlesInFront ==
  /\ op = "find_viable_product" /\ pc = "accumulate"
  /\ LET products == Values(filtered_prices_descriptions)
     IN  /\ descriptions' = Keys(filtered_prices_descriptions) \o descriptions
         /\ prices' = prices
              \o [i \in DOMAIN products |-> FormatMoney(products[i].price)]
         /\ shipping' = shipping
              \o [i \in DOMAIN products |-> FormatMoney(products[i].shipping)]
         /\ countries' = countries
              \o [i \in DOMAIN products |-> products[i].country]
         /\ conditions' = conditions
              \o [i \in DOMAIN products |-> products[i].condition]
         /\ similarities' = similarities
              \o [i \in DOMAIN products |-> products[i].similarity]
  /\ IF page_number + 1 < NumPages
     THEN page_number' = page_number + 1 /\ pc' = "create_url"
     ELSE page_number' = page_number /\ pc' = "finish"
  /\ UNCHANGED <<op, args, ret, work, soup, ramp_down, consecutively_empty,
                 filtered_prices_descriptions, fetch_log, filter_log>>

\* the six "+=" statements that end the body of the page loop
Accumulate ==
  /\ op = "find_viable_product" /\ pc = "accumulate"
  /\ LET products == Values(filtered_prices_descriptions)
     IN  /\ descriptions' = descriptions \o Keys(filtered_prices_descriptions)
         /\ prices' = prices
              \o [i \in DOMAIN products |-> FormatMoney(products[i].price)]
         /\ shipping' = shipping
              \o [i \in DOMAIN products |-> FormatMoney(products[i].shipping)]
         /\ countries' = countries
              \o [i \in DOMAIN products |-> products[i].country]
         /\ conditions' = conditions
              \o [i \in DOMAIN products |-> products[i].condition]
         /\ similarities' = similarities
              \o [i \in DOMAIN products |-> products[i].similarity]
  /\ IF page_number + 1 < NumPages
     THEN page_number' = page_number + 1 /\ pc' = "create_url"
     ELSE page_number' = page_number /\ pc' = "finish"
  /\ UNCHANGED <<op, args, ret, work, soup, ramp_down, consecutively_empty,
                 filtered_prices_descriptions, fetch_log, filter_log>>

\* after the loop: raise NoProductsFound or return the six lists
Finish ==
  /\ op = "find_viable_product" /\ pc = "finish"
  /\ ret' = IF descriptions = <<>> THEN Raise("NoProductsFound")
            ELSE Return(<<descriptions, prices, shipping, countries,
                          conditions, similarities>>)
  /\ pc' = "done"
  /\ UNCHANGED <<op, args, work, search_vars>>

Next ==
  \/ CreateUrl
  \/ CreateUrlFails
  \/ BaseFilter
  \/ RampDown
  \/ Accumulate
  \/ Finish

Spec == SearchInit /\ [][Next]_vars

(***************************************************************************)
(* The other operations, each called on its own with bounded arguments.    *)
(* While one of them runs, the variables of the search stay idle.          *)
(***************************************************************************)
IdleSearch ==
  /\ soup = <<>>
  /\ page_number = 0
  /\ ramp_down = 0
  /\ consecutively_empty = 0
  /\ filtered_prices_descriptions = <<>>
  /\ descriptions = <<>>
  /\ prices = <<>>
  /\ shipping = <<>>
  /\ countries = <<>>
  /\ conditions = <<>>
  /\ similarities = <<>>
  /\ fetch_log = <<>>
  /\ filter_log = <<>>

\* loop state before the first iteration
NoWork == [i |-> 0, acc |-> <<>>]

DistinctKeys(d) == \A i, j \in DOMAIN d : d[i][1] = d[j][1] => i = j

(***************************************************************************)
(* lowest_price_highest_similarity called on a candidate map               *)
(***************************************************************************)
MaxCandidates == 3

SelectTitles == { <<"a">>, <<"b">>, <<"c">>, <<"x">>, <<"a", "b">> }

SelectDetails ==
  [price      : {PyFloat(1000), PyFloat(2000)},
   shipping   : {PyFloat(0)},
   country    : {<<"U", "S">>},
   condition  : {TxtNew},
   similarity : {Frac(9, 10), Frac(1, 2)}]

CandidateMaps ==
  {d \in SeqUpTo(SelectTitles \X SelectDetails, MaxCandidates) :
     DistinctKeys(d)}

SelectInit ==
  /\ op = "lowest_price_highest_similarity"
  /\ args \in [d : CandidateMaps]
  /\ ret = Pending
  /\ pc = "call"
  /\ work = NoWork
  /\ IdleSearch

SelectCall ==
  /\ op = "lowest_price_highest_similarity" /\ pc = "call"
  /\ ret' = lowest_price_highest_similarity(args.d)
  /\ pc' = "done"
  /\ UNCHANGED <<op, args, work, search_vars>>

SelectNext == SelectCall

SpecSelect == SelectInit /\ [][SelectNext]_vars

(***************************************************************************)
(* filter_products_by_similarity called on a product list, statement by    *)
(* statement                                                               *)
(***************************************************************************)
MaxProducts == 3

FilterProducts ==
  [title     : { <<"a", "b", "c">>, <<"a", "b">>, <<"x", "x">> },
   price     : {PyFloat(1000), PyFloat(2000)},
   shipping  : {PyFloat(200)},
   country   : {<<"U", "S">>},
   condition : {TxtNew}]

FilterTargets == { <<"a", "b", "c">>, <<"a", "-", "b">> }

\* -1.0, -0.0001, 0, 0.35, 0.8, 1, 1.0000001 and 1.5
FilterThresholds ==
  {-One, -1000, 0, BaseThreshold, (4 * One) \div 5, One, One + 1,
   (3 * One) \div 2}

FilterInit ==
  /\ op = "filter_products_by_similarity"
  /\ args \in [product_info         : SeqUpTo(FilterProducts, MaxProducts),
               target_title         : FilterTargets,
               similarity_threshold : FilterThresholds]
  /\ ret = Pending
  /\ pc = "validate"
  /\ work = NoWork
  /\ IdleSearch

\* the threshold check that opens the method
FilterValidate ==
  /\ op = "filter_products_by_similarity" /\ pc = "validate"
  /\ IF ~ValidThreshold(args.similarity_threshold)
     THEN ret' = Raise("InvalidSimilarityThreshold") /\ pc' = "done"
     ELSE ret' = ret /\ pc' = "loop"
  /\ UNCHANGED <<op, args, work, search_vars>>

\* one iteration of "for product in product_info"
FilterIterate ==
  /\ op = "filter_products_by_similarity" /\ pc = "loop"
  /\ work.i < Len(args.product_info)
  /\ work' = [i   |-> work.i + 1,
              acc |-> FilterStep(work.acc, args.product_info[work.i + 1],
                                 args.target_title,
                                 args.similarity_threshold)]
  /\ UNCHANGED <<op, args, ret, pc, search_vars>>

FilterReturn ==
  /\ op = "filter_products_by_similarity" /\ pc = "loop"
  /\ work.i = Len(args.product_info)
  /\ ret' = Return(work.acc)
  /\ pc' = "done"
  /\ UNCHANGED <<op, args, work, search_vars>>

FilterNext == FilterValidate \/ FilterIterate \/ FilterReturn

SpecFilter == FilterInit /\ [][FilterNext]_vars

(***************************************************************************)
(* construct_candidates called on six lists, statement by statement        *)
(***************************************************************************)
MaxLen == 2

ConstructInit ==
  /\ op = "construct_candidates"
  /\ args \in [descriptions : SeqUpTo({<<"a">>, <<"b">>}, MaxLen),
               prices       : SeqUpTo({PyStr(<<"1", ".", "0", "0">>),
                                       PyStr(<<"2", ".", "0", "0">>)}, MaxLen),
               shipping     : SeqUpTo({PyStr(<<"0", ".", "0", "0">>)}, MaxLen),
               countries    : SeqUpTo({<<"U", "S">>}, MaxLen),
               conditions   : SeqUpTo({TxtNew}, MaxLen),
               similarities : SeqUpTo({Frac(1, 2)}, MaxLen)]
  /\ ret = Pending
  /\ pc = "validate"
  /\ work = NoWork
  /\ IdleSearch

\* the length check
ConstructValidate ==
  /\ op = "construct_candidates" /\ pc = "validate"
  /\ IF ~LengthsAgree(args.descriptions, args.prices, args.shipping,
                      args.countries, args.conditions, args.similarities)
     THEN ret' = Raise("InvalidDataFormat") /\ pc' = "done"
     ELSE ret' = ret /\ pc' = "loop"
  /\ UNCHANGED <<op, args, work, search_vars>>

\* one iteration of the loop over the zipped lists
ConstructIterate ==
  /\ op = "construct_candidates" /\ pc = "loop"
  /\ work.i < Len(args.descriptions)
  /\ work' = [i   |-> work.i + 1,
              acc |-> ConstructStep(work.acc, args.descriptions, args.prices,
                                    args.shipping, args.countries,
                                    args.conditions, args.similarities,
                                    work.i + 1)]
  /\ UNCHANGED <<op, args, ret, pc, search_vars>>

ConstructReturn ==
  /\ op = "construct_candidates" /\ pc = "loop"
  /\ work.i = Len(args.descriptions)
  /\ ret' = Return(work.acc)
  /\ pc' = "done"
  /\ UNCHANGED <<op, args, work, search_vars>>

ConstructNext == ConstructValidate \/ ConstructIterate \/ ConstructReturn

SpecConstruct == ConstructInit /\ [][ConstructNext]_vars

(***************************************************************************)
(* reject_outliers called on a sample                                      *)
(***************************************************************************)
MaxSample == 4

SampleValues == {1, 2, 4, 10}

\* m = 1.5 (remove_outliers), 1 and 3
Multipliers == {OutlierM, Frac(1, 1), Frac(3, 1)}

OutliersInit ==
  /\ op = "reject_outliers"
  /\ args \in [data : SeqUpTo(SampleValues, MaxSample), m : Multipliers]
  /\ ret = Pending
  /\ pc = "call"
  /\ work = NoWork
  /\ IdleSearch

OutliersCall ==
  /\ op = "reject_outliers" /\ pc = "call"
  /\ ret' = Return(reject_outliers(args.data, args.m))
  /\ pc' = "done"
  /\ UNCHANGED <<op, args, work, search_vars>>

OutliersNext == OutliersCall

SpecOutliers == OutliersInit /\ [][OutliersNext]_vars

(***************************************************************************)
(* Claims                                                                  *)
(***************************************************************************)
SelectDone == op = "lowest_price_highest_similarity" /\ pc = "done"

\* the two candidates of the example: similarities [0.9, 0.9], prices
\* [20, 10]
C1_Example ==
  << << <<"a">>, [price |-> PyFloat(2000), shipping |-> PyFloat(0),
                  country |-> <<"U", "S">>, condition |-> TxtNew,
                  similarity |-> Frac(9, 10)] >>,
     << <<"b">>, [price |-> PyFloat(1000), shipping |-> PyFloat(0),
                  country |-> <<"U", "S">>, condition |-> TxtNew,
                  similarity |-> Frac(9, 10)] >> >>

\* C1: on a non-empty candidate map lowest_price_highest_similarity returns
\* an entry of the map; no entry has a higher similarity than the returned
\* one, and no entry with the returned similarity has a lower price; on the
\* example (similarities 0.9, 0.9, prices 20, 10) it returns the entry
\* priced 10.
C1_SelectMaxSimilarityMinPrice ==
  (SelectDone /\ args.d # <<>>) =>
    /\ ret.exc = "none"
    /\ \E i \in DOMAIN args.d : args.d[i] = ret.value
    /\ \A i \in DOMAIN args.d :
         LET e == args.d[i][2]
             w == ret.value[2]
         IN  /\ e.similarity.n * w.similarity.d
                  <= w.similarity.n * e.similarity.d
             /\ (e.similarity = w.similarity => w.price.v <= e.price.v)
    /\ (args.d = C1_Example => ret.value[1] = <<"b">>)

\* C1 witness: a returned winner that ties at the maximum similarity with a
\* dearer entry, next to a cheaper entry of lower similarity
C1_Witness ==
  /\ SelectDone /\ ret.exc = "none"
  /\ \E i, j \in DOMAIN args.d :
       /\ args.d[i][2].similarity = ret.value[2].similarity
       /\ args.d[i][2].price.v > ret.value[2].price.v
       /\ i < CHOOSE k \in DOMAIN args.d : args.d[k] = ret.value
       /\ args.d[j][2].similarity # ret.value[2].similarity
       /\ args.d[j][2].price.v < args.d[i][2].price.v

\* C8: lowest_price_highest_similarity on the empty map raises
\* NoProductsFound and returns nothing.
C8_SelectEmptyRaises ==
  (SelectDone /\ args.d = <<>>) => ret = Raise("NoProductsFound")

\* C8 witness: the call on the empty map has raised
C8_Witness ==
  SelectDone /\ args.d = <<>> /\ ret.exc = "NoProductsFound"

FilterCalled == op = "filter_products_by_similarity"

\* C3: filter_products_by_similarity raises InvalidSimilarityThreshold
\* exactly when the threshold is below 0 or above 1, whatever the product
\* list; it does so before any product is examined or any similarity
\* computed (the loop is never entered); thresholds 0 and 1 are accepted.
C3_InvalidThresholdRaisesFirst ==
  FilterCalled =>
    LET th      == args.similarity_threshold
        outside == th < 0 \/ th > One
    IN  /\ pc # "validate" =>
             (ret.exc = "InvalidSimilarityThreshold" <=> outside)
        /\ outside => (pc # "loop" /\ work.i = 0 /\ work.acc = <<>>)
        /\ (pc = "done" /\ th \in {0, One}) => ret.exc = "none"

\* C3 witness: the threshold 1.0000001 has raised on a non-empty list
C3_Witness ==
  /\ FilterCalled /\ pc = "done"
  /\ args.similarity_threshold = One + 1
  /\ args.product_info # <<>>
  /\ ret.exc = "InvalidSimilarityThreshold"

\* the last position of product_info that holds title t
C4_LastWithTitle(t) ==
  CHOOSE i \in DOMAIN args.product_info :
    /\ args.product_info[i].title = t
    /\ \A j \in DOMAIN args.product_info :
         args.product_info[j].title = t => j <= i

\* C4: for a valid threshold the returned map has a key t exactly when some
\* product has title t and similarity(t, target) >= threshold; every entry
\* carries that similarity and the price, shipping, country and condition
\* of the last product of the input with its title.
C4_FilterKeepsAtOrAboveThreshold ==
  (FilterCalled /\ pc = "done" /\ ret.exc = "none") =>
    LET th     == args.similarity_threshold
        titles == {args.product_info[i].title : i \in DOMAIN args.product_info}
        sim(t) == get_similarity(t, args.target_title)
    IN  /\ DistinctKeys(ret.value)
        /\ \A k \in DOMAIN ret.value : ret.value[k][1] \in titles
        /\ \A t \in titles :
             HasKey(ret.value, t) <=> sim(t).n * One >= th * sim(t).d
        /\ \A k \in DOMAIN ret.value :
             LET t == ret.value[k][1]
                 e == ret.value[k][2]
                 p == args.product_info[C4_LastWithTitle(t)]
             IN  /\ e.similarity = sim(t)
                 /\ e.price = p.price
                 /\ e.shipping = p.shipping
                 /\ e.country = p.country
                 /\ e.condition = p.condition

\* C4 witness: two kept products share a title and differ in price, a third
\* product is rejected, and one kept similarity equals the threshold
C4_Witness ==
  /\ FilterCalled /\ pc = "done" /\ ret.exc = "none"
  /\ \E i, j, k \in DOMAIN args.product_info :
       /\ i < j
       /\ args.product_info[i].title = args.product_info[j].title
       /\ args.product_info[i].price # args.product_info[j].price
       /\ HasKey(ret.value, args.product_info[i].title)
       /\ ~HasKey(ret.value, args.product_info[k].title)
       /\ Get(ret.value, args.product_info[i].title).similarity.n * One
            = args.similarity_threshold
                * Get(ret.value, args.product_info[i].title).similarity.d

ConstructCalled == op = "construct_candidates"

\* C9: construct_candidates raises InvalidDataFormat exactly when two of
\* the six lists differ in length, and then before any entry is built; when
\* the six lengths are equal it returns.
C9_ConstructRequiresEqualLengths ==
  ConstructCalled =>
    LET lens   == << Len(args.descriptions), Len(args.prices),
                     Len(args.shipping), Len(args.countries),
                     Len(args.conditions), Len(args.similarities) >>
        differ == \E i, j \in 1..6 : lens[i] # lens[j]
    IN  /\ pc # "validate" => (ret.exc = "InvalidDataFormat" <=> differ)
        /\ differ => (pc # "loop" /\ work.i = 0 /\ work.acc = <<>>)
        /\ (pc = "done" /\ ~differ) => ret.exc = "none"

\* C9 witness: only the last list is shorter, and the call has raised
C9_Witness ==
  /\ ConstructCalled /\ pc = "done"
  /\ Len(args.descriptions) = 2 /\ Len(args.prices) = 2
  /\ Len(args.shipping) = 2 /\ Len(args.countries) = 2
  /\ Len(args.conditions) = 2 /\ Len(args.similarities) = 1
  /\ ret.exc = "InvalidDataFormat"

\* the sample sorted ascending, by insertion
RECURSIVE C10_Insert(_, _)
C10_Insert(x, s) ==
  IF s = <<>> THEN <<x>>
  ELSE IF x <= Head(s) THEN <<x>> \o s
  ELSE <<Head(s)>> \o C10_Insert(x, Tail(s))

RECURSIVE C10_Sorted(_)
C10_Sorted(s) == IF s = <<>> THEN <<>> ELSE C10_Insert(Head(s), C10_Sorted(Tail(s)))

\* twice the median of a non-empty sample
C10_Median2(s) ==
  LET t == C10_Sorted(s)
      n == Len(s)
  IN  IF n % 2 = 1 THEN 2 * t[(n + 1) \div 2]
      ELSE t[n \div 2] + t[n \div 2 + 1]

SearchCalled == op = "find_viable_product"

\* the page indices create_url was called with, in call order
FetchStarts == [i \in DOMAIN fetch_log |-> fetch_log[i].start]

\* every fetch so far succeeded and returned zero rows
AllFetchedEmpty ==
  \A i \in DOMAIN fetch_log : fetch_log[i].ok /\ fetch_log[i].rows = 0

\* the statements of the search executed so far, counted from the logs
StepsTaken ==
  Len(fetch_log) + Len(filter_log) + page_number
    + (IF pc = "finish" THEN 1 ELSE 0) + (IF pc = "done" THEN 2 ELSE 0)

\* C2: while every fetched page has zero rows, the pages fetched are
\* 0, 1, 2, ... each once and at most 5 of them, with at most 4 filter
\* attempts each; every step of the search adds to a count that never
\* exceeds 31, so the search ends; and it ends by raising NoProductsFound
\* after exactly the 5 fetches 0..4.
C2_EmptySearchRaisesAfterFivePages ==
  /\ [](SearchCalled /\ AllFetchedEmpty =>
          /\ FetchStarts = [i \in 1..Len(fetch_log) |-> i - 1]
          /\ Len(fetch_log) <= 5
          /\ Len(filter_log) <= 4 * Len(fetch_log)
          /\ StepsTaken <= 31
          /\ pc \in {"create_url", "base", "ramp", "accumulate", "finish",
                     "done"}
          /\ pc = "done" =>
               (ret = Raise("NoProductsFound")
                  /\ FetchStarts = <<0, 1, 2, 3, 4>>))
  /\ [][SearchCalled /\ AllFetchedEmpty => StepsTaken' > StepsTaken]_vars

\* C2 witness: five empty pages were fetched and NoProductsFound was raised
C2_Witness ==
  /\ SearchCalled /\ pc = "done" /\ AllFetchedEmpty
  /\ Len(fetch_log) = 5
  /\ ret.exc = "NoProductsFound"

\* the map the last filter attempt on page p returned: what page p
\* contributes
PageAccepted(p) ==
  LET idx  == {i \in DOMAIN filter_log : filter_log[i].page = p}
      last == CHOOSE i \in idx : \A j \in idx : j <= i
  IN  IF idx = {} THEN <<>> ELSE filter_log[last].value

\* the number of entries pages 0 .. p-1 contribute
RECURSIVE EntriesBefore(_)
EntriesBefore(p) ==
  IF p = 0 THEN 0 ELSE EntriesBefore(p - 1) + Len(PageAccepted(p - 1))

\* float(s.replace(",", "")), the re-parsing views.py applies
ParseMoney(s) == FloatCents(RemoveCommas(s.v))

\* C5: on a successful return the six lists have one length, the entries
\* of page p follow those of pages 0 .. p-1, and position i of the six
\* lists holds the title, price, shipping, country, condition and
\* similarity of one accepted entry.
C5_ParallelSequencesAligned ==
  (SearchCalled /\ pc = "done" /\ ret.exc = "none") =>
    LET ds   == ret.value[1]
        ps   == ret.value[2]
        ss   == ret.value[3]
        cs   == ret.value[4]
        ks   == ret.value[5]
        sims == ret.value[6]
    IN  /\ Len(ds) = EntriesBefore(5)
        /\ \A l \in {Len(ps), Len(ss), Len(cs), Len(ks), Len(sims)} :
             l = Len(ds)
        /\ \A p \in 0..4 : \A k \in DOMAIN PageAccepted(p) :
             LET i == EntriesBefore(p) + k
                 e == PageAccepted(p)[k]
             IN  /\ ds[i] = e[1]
                 /\ ps[i].t = "str" /\ ParseMoney(ps[i]) = e[2].price.v
                 /\ ss[i].t = "str" /\ ParseMoney(ss[i]) = e[2].shipping.v
                 /\ cs[i] = e[2].country
                 /\ ks[i] = e[2].condition
                 /\ sims[i] = e[2].similarity

\* C5 witness: a successful return in which two pages contribute, one of
\* them two entries, with different prices
C5_Witness ==
  /\ SearchCalled /\ pc = "done" /\ ret.exc = "none"
  /\ \E p, q \in 0..4 :
       /\ p < q
       /\ Len(PageAccepted(p)) = 2
       /\ Len(PageAccepted(q)) = 1
       /\ PageAccepted(q)[1][2].price # PageAccepted(p)[1][2].price
       /\ PageAccepted(q)[1][1] # PageAccepted(p)[1][1]

\* the number of pages whose entries have been appended
PagesAccumulated ==
  IF pc = "finish" \/ (pc = "done" /\ ret.exc \in {"none", "NoProductsFound"})
  THEN 5 ELSE page_number

\* C6: a page whose last filter attempt is empty adds nothing to the lists
\* and the search goes on; NoProductsFound is raised only when all 5 pages
\* were fetched and filtered, and, once the loop is over, exactly when no
\* page contributed an entry.
C6_EmptyPageDoesNotAbort ==
  SearchCalled =>
    /\ Len(descriptions) = EntriesBefore(PagesAccumulated)
    /\ pc # "done" => ret = Pending
    /\ ret.exc = "NoProductsFound" =>
         /\ pc = "done"
         /\ Len(fetch_log) = 5
         /\ \A i \in DOMAIN fetch_log : fetch_log[i].ok
         /\ \A p \in 0..4 : \E i \in DOMAIN filter_log : filter_log[i].page = p
    /\ (pc = "done" /\ ret.exc \in {"none", "NoProductsFound"}) =>
         (ret.exc = "NoProductsFound" <=>
            \A p \in 0..4 : Len(PageAccepted(p)) = 0)

\* C6 witness: a page with rows stayed empty through its ramp-down loop, a
\* later page contributed, and the search returned
C6_Witness ==
  /\ SearchCalled /\ pc = "done" /\ ret.exc = "none"
  /\ \E p, q \in 0..4 :
       /\ p < q
       /\ fetch_log[p + 1].rows > 0
       /\ Cardinality({i \in DOMAIN filter_log : filter_log[i].page = p}) > 1
       /\ Len(PageAccepted(p)) = 0
       /\ Len(PageAccepted(q)) > 0

\* C7: a failed fetch is the last thing the search does: it is the last
\* fetch, its page was not fetched before, no page at or after it was
\* filtered, and the search has ended with ScraperRequestError and no
\* value.
C7_FetchFailurePropagates ==
  SearchCalled =>
    \A i \in DOMAIN fetch_log :
      ~fetch_log[i].ok =>
        /\ i = Len(fetch_log)
        /\ \A j \in 1..(i - 1) : fetch_log[j].start # fetch_log[i].start
        /\ \A k \in DOMAIN filter_log :
             filter_log[k].page < fetch_log[i].start
        /\ pc = "done"
        /\ ret = Raise("ScraperRequestError")

\* C7 witness: the fetch of a later page failed after earlier pages had
\* contributed entries
C7_Witness ==
  /\ SearchCalled /\ pc = "done"
  /\ Len(fetch_log) > 1 /\ ~fetch_log[Len(fetch_log)].ok
  /\ descriptions # <<>>
  /\ ret.exc = "ScraperRequestError"

(***************************************************************************)
(* utils.percentage_difference.  Prices are whole cents; the amount is a   *)
(* str of the percentage with two decimals.                                *)
(***************************************************************************)
\* np.isclose(a, b) with numpy's defaults: |a - b| <= 1e-8 + 1e-5 * |b|.
\* On whole cents that is 100000 * |a - b| <= |b| + 0.1, and both sides
\* but the 0.1 are integers
IsClose(a, b) == Abs(a - b) <= Abs(b) \div 100000

\* str(n) of an integer n >= 0
RECURSIVE Digits(_)
Digits(n) ==
  IF n < 10 THEN <<DigitChar(n)>>
  ELSE Digits(n \div 10) \o <<DigitChar(n % 10)>>

\* f"{x:.2f}" of a non-negative x given in hundredths
Fixed2(h) ==
  PyStr(Digits(h \div 100)
        \o <<".", DigitChar((h \div 10) % 10), DigitChar(h % 10)>>)

\* mutant: the quotient is cut off after the second decimal
RoundHundredths_Floor(num, den, tie_up) == (100 * num) \div den

\* num / den in hundredths, rounded to the nearest hundredth as the
\* formatting does; a quotient exactly half way between two hundredths goes
\* the way the double that holds it falls (tie_up)
RoundHundredths(num, den, tie_up) ==
  LET q == (100 * num) \div den
      r == (100 * num) % den
  IN  IF 2 * r > den \/ (2 * r = den /\ tie_up) THEN q + 1 ELSE q

\* the larger price of the comparison, 1.0 when that price is close to zero
Baseline(list_price_value, best_price_value) ==
  IF list_price_value > best_price_value
  THEN (IF IsClose(list_price_value, 0) THEN 100 ELSE list_price_value)
  ELSE (IF IsClose(best_price_value, 0) THEN 100 ELSE best_price_value)

percentage_difference(list_price_value, best_price_value, tie_up) ==
  IF list_price_value < 0 \/ best_price_value < 0
  THEN Raise("InvalidDataFormat")
  ELSE IF IsClose(list_price_value, best_price_value)
  THEN Return([amount |-> PyStr(<<"0", ".", "0", "0">>), type |-> "equal"])
  ELSE LET baseline == Baseline(list_price_value, best_price_value)
           difference_value == Abs(list_price_value - best_price_value)
       IN  Return([amount |-> Fixed2(RoundHundredths(100 * difference_value,
                                                      baseline, tie_up)),
                   type   |-> IF list_price_value > best_price_value
                              THEN "decrease" ELSE "increase"])

\* the prices compared, in cents: -0.01, 0, 0.01, 50, 100, 150, 199.99, 200,
\* 999.99, 1000 and 1000.01
PercentInit ==
  /\ op = "percentage_difference"
  /\ \E PriceCents \in {{-1, 0, 1, 5000, 10000, 15000, 19999, 20000, 99999,
                          100000, 100001}} :
       args \in [list_price : PriceCents, best_price : PriceCents]
  /\ ret = Pending
  /\ pc = "call"
  /\ work = NoWork
  /\ IdleSearch

PercentCall ==
  /\ op = "percentage_difference" /\ pc = "call"
  /\ \E tie_up \in BOOLEAN :
       ret' = percentage_difference(args.list_price, args.best_price, tie_up)
  /\ pc' = "done"
  /\ UNCHANGED <<op, args, work, search_vars>>

SpecPercent == PercentInit /\ [][PercentCall]_vars

PercentDone == op = "percentage_difference" /\ pc = "done"

\* the amount is the two-decimal figure nearest to 100 * diff / base
C11_Nearest(amount, diff, base) ==
  LET h == ParseMoney(amount)
  IN  /\ amount = Fixed2(h)
      /\ 2 * Abs(h * base - 10000 * diff) <= base

\* C11 as stated: 'equal' with '0.00' exactly when the prices are equal,
\* 'decrease' whenever listPrice > bestPrice, 'increase' whenever
\* listPrice < bestPrice, the amount being |difference| / max * 100 to two
\* decimals; a negative price raises InvalidDataFormat.
C11_AsStated ==
  PercentDone =>
    LET l == args.list_price
        b == args.best_price
    IN  IF l < 0 \/ b < 0 THEN ret = Raise("InvalidDataFormat")
        ELSE /\ ret.exc = "none"
             /\ l = b => /\ ret.value.type = "equal"
                         /\ ret.value.amount = PyStr(<<"0", ".", "0", "0">>)
             /\ l > b => /\ ret.value.type = "decrease"
                         /\ C11_Nearest(ret.value.amount, l - b, l)
             /\ l < b => /\ ret.value.type = "increase"
                         /\ C11_Nearest(ret.value.amount, b - l, b)

\* C11 amended: prices that differ by no more than 1e-8 + 1e-5 * bestPrice
\* give 'equal' with '0.00'; beyond that tolerance listPrice > bestPrice
\* gives 'decrease' and listPrice < bestPrice gives 'increase', the amount
\* being |difference| / max * 100 to two decimals ((150, 100) gives '33.33',
\* 'decrease'; (100, 100) gives '0.00', 'equal'); a negative price raises
\* InvalidDataFormat and no value is returned.
C11_PercentageDifference ==
  PercentDone =>
    LET l == args.list_price
        b == args.best_price
        \* 1e5 * |l - b| <= b; a difference of 200.00 or more is never within
        within == 100000 * Min2(Abs(l - b), 20000) <= b
    IN  IF l < 0 \/ b < 0 THEN ret = Raise("InvalidDataFormat")
        ELSE /\ ret.exc = "none"
             /\ within => /\ ret.value.type = "equal"
                          /\ ret.value.amount = PyStr(<<"0", ".", "0", "0">>)
             /\ ~within /\ l > b =>
                  /\ ret.value.type = "decrease"
                  /\ C11_Nearest(ret.value.amount, l - b, l)
             /\ ~within /\ l < b =>
                  /\ ret.value.type = "increase"
                  /\ C11_Nearest(ret.value.amount, b - l, b)
             /\ l = 15000 /\ b = 10000 =>
                  ret.value = [amount |-> PyStr(<<"3", "3", ".", "3", "3">>),
                               type |-> "decrease"]

\* C11 witness: the listing price is below the best price and the
\* difference is returned as an increase of '50.00'
C11_Witness ==
  /\ PercentDone
  /\ args.list_price = 5000 /\ args.best_price = 10000
  /\ ret = Return([amount |-> PyStr(<<"5", "0", ".", "0", "0">>),
                   type |-> "increase"])

(***************************************************************************)
(* utils.price_difference_rating.  Prices are whole currency units; the    *)
(* adjusted price is kept in units of 1e-4 and the rating is the exact     *)
(* quotient as a reduced fraction, so float rounding is not modelled.      *)
(***************************************************************************)
\* 1.0 in the units of the adjusted price
RatingScale == 10000

\* decay_constant = 0.01: np.exp(-0.01 * d) in units of 1e-4, rounded to the
\* nearest unit, for the day offsets modelled
ExpDecay(d) ==
  CASE d = 0 -> 10000
    [] d = 1 -> 9900
    [] d = 6 -> 9418
    [] d = 7 -> 9324
    [] d = 29 -> 7483
    [] d = 30 -> 7408

\* linear_factor = 0.0125, in units of 1e-4
linear_factor == 125

\* mutant: the age penalty starts a day late
threshold_days_Late == 7 + 1

threshold_days == 7

\* np.clip(rating, 0.0, 5.0)
Clip05(r) ==
  IF r.n < 0 THEN Frac(0, 1) ELSE IF r.n > 5 * r.d THEN Frac(5, 1) ELSE r

price_difference_rating(initial, final, days) ==
  IF initial <= 0 THEN Raise("InvalidDataFormat")
  ELSE LET initial_price == initial * RatingScale
           final_price   == final * RatingScale
           days_past_threshold == days - threshold_days
           penalty_amount ==
             initial * ExpDecay(days_past_threshold)
             + linear_factor * days_past_threshold * initial
           adjusted_initial ==
             IF days >= threshold_days THEN initial_price + penalty_amount
             ELSE initial_price
           price_difference == adjusted_initial - final_price
       IN  IF adjusted_initial <= final_price THEN Return(Frac(5, 1))
           ELSE Return(Clip05(Frac(5 * adjusted_initial - 5 * price_difference,
                                   adjusted_initial)))

\* the prices rated and the ages of the listings, in days
RatingInit ==
  /\ op = "price_difference_rating"
  /\ \E RatedPrices \in {{-1, 0, 1, 50, 100, 200}} :
       args \in [initial : RatedPrices, final : RatedPrices,
                 days : {-1, 0, 6, 7, 8, 14, 37}]
  /\ ret = Pending
  /\ pc = "call"
  /\ work = NoWork
  /\ IdleSearch

RatingCall ==
  /\ op = "price_difference_rating" /\ pc = "call"
  /\ ret' = price_difference_rating(args.initial, args.final, args.days)
  /\ pc' = "done"
  /\ UNCHANGED <<op, args, work, search_vars>>

SpecRating == RatingInit /\ [][RatingCall]_vars

RatingDone == op = "price_difference_rating" /\ pc = "done"

\* a / b < c / d for a, c >= 0 and b, d > 0, by comparing the continued
\* fractions of the two quotients
RECURSIVE C12_Less(_, _, _, _)
C12_Less(a, b, c, d) ==
  IF a \div b # c \div d THEN a \div b < c \div d
  ELSE IF c % d = 0 THEN FALSE
  ELSE IF a % b = 0 THEN TRUE
  ELSE C12_Less(d, c % d, b, a % b)

\* C12: for initialPrice > 0 the rating is a value in [0, 5]; it is 5.0 when
\* initialPrice <= finalPrice and daysListed < 7; for 0 < finalPrice <
\* initialPrice a listing with daysListed >= 7 rates below 5.0 and strictly
\* below the same prices with daysListed = 0, as rating(100, 50, 14) does.
C12_RatingBoundedAndPenalisesAge ==
  RatingDone /\ args.initial > 0 =>
    /\ ret.exc = "none"
    /\ 0 <= ret.value.n /\ ret.value.n <= 5 * ret.value.d /\ ret.value.d > 0
    /\ args.initial <= args.final /\ args.days < 7 => ret.value = Frac(5, 1)
    /\ 0 < args.final /\ args.final < args.initial /\ args.days >= 7 =>
         LET fresh == price_difference_rating(args.initial, args.final, 0)
         IN  /\ C12_Less(ret.value.n, ret.value.d, 5, 1)
             /\ C12_Less(ret.value.n, ret.value.d,
                         fresh.value.n, fresh.value.d)

\* C12 witness: rating(100, 50, 14) was computed and is below 5.0
C12_Witness ==
  /\ RatingDone
  /\ args = [initial |-> 100, final |-> 50, days |-> 14]
  /\ ret.exc = "none"
  /\ ret.value.n < 5 * ret.value.d

(***************************************************************************)
(* Title normalisation as get_product_info applies it:                     *)
(* utils.clean_text(title.lower()), applied once and then to its own       *)
(* result                                                                  *)
(***************************************************************************)
MaxTitleLen == 4

\* titles over an upper-case and a lower-case letter, a digit, two kinds of
\* whitespace and a punctuation mark
NormalizeInit ==
  /\ op = "normalize"
  /\ args \in [title : SeqUpTo({"A", "b", "1", " ", "\n", "!"}, MaxTitleLen)]
  /\ ret = Pending
  /\ pc = "call"
  /\ work = NoWork
  /\ IdleSearch

\* the record's title is produced
NormalizeCall ==
  /\ op = "normalize" /\ pc = "call"
  /\ ret' = Return(clean_text(Lower(args.title)))
  /\ pc' = "again"
  /\ UNCHANGED <<op, args, work, search_vars>>

\* the produced title is normalised again
NormalizeAgain ==
  /\ op = "normalize" /\ pc = "again"
  /\ work' = [i |-> 1, acc |-> clean_text(Lower(ret.value))]
  /\ pc' = "done"
  /\ UNCHANGED <<op, args, ret, search_vars>>

NormalizeNext == NormalizeCall \/ NormalizeAgain

SpecNormalize == NormalizeInit /\ [][NormalizeNext]_vars

\* C13: normalising a normalised title changes nothing, and a normalised
\* title holds only letters, digits and single interior spaces: no other
\* character, no two spaces in a row, no whitespace at either end.
C13_NormalizeIdempotent ==
  /\ op = "normalize" /\ pc \in {"again", "done"} =>
       LET t == ret.value
       IN  /\ \A i \in DOMAIN t :
                \/ t[i] \in {"a", "b", "c", "x", "A", "B", "C", "X"}
                \/ t[i] \in {"0", "1", "2", "3", "4", "5", "6", "7", "8", "9"}
                \/ t[i] = " "
           /\ \A i \in 1..(Len(t) - 1) : ~(t[i] = " " /\ t[i + 1] = " ")
           /\ t # <<>> => t[1] # " " /\ t[Len(t)] # " "
  /\ op = "normalize" /\ pc = "done" => work.acc = ret.value

\* C13 witness: a title with an upper-case letter, punctuation and leading
\* whitespace was normalised twice
C13_Witness ==
  /\ op = "normalize" /\ pc = "done"
  /\ args.title = <<"\n", "A", "!", "b">>
  /\ ret.value = <<"a", " ", "b">>
  /\ work.acc = <<"a", " ", "b">>

(***************************************************************************)
(* The filter attempts of one page, read from the search's call history    *)
(***************************************************************************)
\* the listing_product_similarity calls made for page p, in call order: the
\* attempt at the base threshold first, then the ramp-down attempts
PageAttempts(p) == SelectSeq(filter_log, LAMBDA e : e.page = p)

\* page p's filter attempts are over
PageFiltered(p) == p < PagesAccumulated \/ (p = page_number /\ pc = "accumulate")

\* C14: on a page whose attempt at the base threshold returned empty, the
\* ramp-down loop runs at least once, and no more than 2 re-filter attempts
\* return empty in a row before the search moves on to the next page.
C14_AtMostTwoEmptyRetries ==
  SearchCalled =>
    \A p \in 0..4 :
      LET a == PageAttempts(p)
      IN  (a # <<>> /\ a[1].exc = "none" /\ a[1].value = <<>>) =>
            /\ PageFiltered(p) => Len(a) >= 2
            /\ \A i, j \in 2..Len(a) :
                 (\A k \in i..j : a[k].exc = "none" /\ a[k].value = <<>>)
                   => j - i + 1 <= 2

\* the thresholds of page p's filter attempts, in call order
ThresholdsTried(p) == [i \in DOMAIN PageAttempts(p) |-> PageAttempts(p)[i].threshold]

\* C15: the thresholds tried on a page depend on that page's rows and the
\* initial ramp-down only: 0.35 first, then 0.35 less the initial ramp-down
\* and one 0.05 step per re-filter attempt of that page (never below 0),
\* whatever earlier pages held and however many steps they consumed.
C15_ThresholdsIndependentPerPage ==
  SearchCalled =>
    \A p \in 0..4 :
      LET t == ThresholdsTried(p)
      IN  \A i \in DOMAIN t :
            t[i] = IF i = 1 THEN BaseThreshold
                   ELSE Max2(0, BaseThreshold
                                  - (args.ramp_down + (i - 1) * RampStep))

\* C16: pages are fetched in the order 0, 1, 2, ..., none twice, and a
\* search that runs to its end has fetched each of 0..4 once; every filter
\* attempt works on the page fetched last, without a fetch of its own; and
\* once page p + 1 is fetched no attempt on page p follows.
C16_PagesSequential ==
  /\ [](SearchCalled =>
          /\ FetchStarts = [i \in 1..Len(fetch_log) |-> i - 1]
          /\ Len(fetch_log) <= 5
          /\ (pc = "done" /\ ret.exc \in {"none", "NoProductsFound"}) =>
               FetchStarts = <<0, 1, 2, 3, 4>>
          /\ \A k \in DOMAIN filter_log :
               /\ \E i \in DOMAIN fetch_log :
                    fetch_log[i].ok /\ fetch_log[i].start = filter_log[k].page
               /\ \A j \in 1..(k - 1) : filter_log[j].page <= filter_log[k].page)
  /\ [][SearchCalled =>
          /\ fetch_log' # fetch_log =>
               /\ filter_log' = filter_log
               /\ Len(fetch_log') = Len(fetch_log) + 1
               /\ SubSeq(fetch_log', 1, Len(fetch_log)) = fetch_log
               /\ \A p \in 0..(fetch_log'[Len(fetch_log')].start - 1) :
                    PageAttempts(p) # <<>>
          /\ filter_log' # filter_log =>
               /\ fetch_log' = fetch_log /\ soup' = soup
               /\ Len(filter_log') = Len(filter_log) + 1
               /\ SubSeq(filter_log', 1, Len(filter_log)) = filter_log
               /\ fetch_log # <<>>
               /\ fetch_log[Len(fetch_log)].ok
               /\ filter_log'[Len(filter_log')].page
                    = fetch_log[Len(fetch_log)].start]_vars

\* C16 witness: a search returned after fetching the five pages, at least
\* one of which was re-filtered by the ramp-down loop
C16_Witness ==
  /\ SearchCalled /\ pc = "done" /\ ret.exc = "none"
  /\ Len(fetch_log) = 5
  /\ \E p \in 0..3 : Len(PageAttempts(p)) >= 2 /\ PageAttempts(p + 1) # <<>>

(***************************************************************************)
(* find_viable_product called with any initial ramp_down: the parameter is *)
(* a float the code does not validate                                       *)
(***************************************************************************)
\* ramp_down is -1.0, -0.10, 0.0, 0.30 or 0.40
AnyRampInit ==
  /\ op = "find_viable_product"
  /\ args \in [title : Titles,
                ramp_down : RampDowns \cup {-20 * RampStep, -2 * RampStep,
                                            8 * RampStep}]
  /\ ret = Pending
  /\ pc = "create_url"
  /\ work = NoWork
  /\ soup = <<>>
  /\ page_number = 0
  /\ ramp_down = args.ramp_down
  /\ consecutively_empty = 0
  /\ filtered_prices_descriptions = <<>>
  /\ descriptions = <<>>
  /\ prices = <<>>
  /\ shipping = <<>>
  /\ countries = <<>>
  /\ conditions = <<>>
  /\ similarities = <<>>
  /\ fetch_log = <<>>
  /\ filter_log = <<>>

SpecAnyRamp == AnyRampInit /\ [][Next]_vars

\* C17: every threshold the search passes to the filter is >= 0, whatever
\* the initial ramp_down, the pages and the ramp-down steps taken.
C17_ThresholdNeverNegative ==
  SearchCalled => \A k \in DOMAIN filter_log : filter_log[k].threshold >= 0

\* C17 witness: the accumulated ramp_down exceeds 0.35 and the re-filter
\* was called with the threshold 0
C17_Witness ==
  /\ SearchCalled
  /\ ramp_down > BaseThreshold
  /\ filter_log # <<>>
  /\ filter_log[Len(filter_log)].threshold = 0
  /\ filter_log[Len(filter_log)].page = page_number

(***************************************************************************)
(* The flow of views.Index.post after the search: the six lists returned   *)
(* by find_viable_product go to construct_candidates                       *)
(***************************************************************************)
\* candidates = shopping_instance.construct_candidates(...)
FlowConstruct ==
  /\ op = "find_viable_product" /\ pc = "done" /\ ret.exc = "none"
  /\ \E r \in {construct_candidates(ret.value[1], ret.value[2], ret.value[3],
                                    ret.value[4], ret.value[5], ret.value[6])} :
       IF r.exc = "none"
       THEN /\ work' = [i |-> Len(ret.value[1]), acc |-> r.value]
            /\ pc' = "constructed"
       ELSE /\ work' = [i |-> 0, acc |-> r]
            /\ pc' = "construct_failed"
  /\ UNCHANGED <<op, args, ret, search_vars>>

FlowNext == Next \/ FlowConstruct

SpecFlow == SearchInit /\ [][FlowNext]_vars

\* the pages on which title t was accepted
C18_PagesWith(t) == {p \in 0..4 : HasKey(PageAccepted(p), t)}

\* C18: the candidate map built from the search's lists has one entry per
\* distinct title returned, and each title maps to the fields of its
\* entry on the latest page that accepted it.
C18_LastPageWins ==
  (SearchCalled /\ pc = "constructed") =>
    LET cand == work.acc
    IN  /\ DistinctKeys(cand)
        /\ Range(Keys(cand)) = Range(ret.value[1])
        /\ Len(cand) = Cardinality(Range(ret.value[1]))
        /\ \A k \in DOMAIN cand :
             LET t    == cand[k][1]
                 last == CHOOSE p \in C18_PagesWith(t) :
                           \A q \in C18_PagesWith(t) : q <= p
                 e    == Get(PageAccepted(last), t)
             IN  /\ C18_PagesWith(t) # {}
                 /\ ParseMoney(cand[k][2].price) = e.price.v
                 /\ ParseMoney(cand[k][2].shipping) = e.shipping.v
                 /\ cand[k][2].country = e.country
                 /\ cand[k][2].condition = e.condition
                 /\ cand[k][2].similarity = e.similarity

\* C18 witness: a title was accepted on two pages at different prices and
\* the map holds the price of the later page
C18_Witness ==
  /\ SearchCalled /\ pc = "constructed"
  /\ \E p, q \in 0..4 : \E t \in Range(ret.value[1]) :
       /\ p < q /\ q = CHOOSE x \in C18_PagesWith(t) :
                         \A y \in C18_PagesWith(t) : y <= x
       /\ HasKey(PageAccepted(p), t)
       /\ Get(PageAccepted(p), t).price # Get(PageAccepted(q), t).price
       /\ ParseMoney(Get(work.acc, t).price) = Get(PageAccepted(q), t).price.v

(***************************************************************************)
(* get_product_info called on a loaded page                                *)
(***************************************************************************)
MaxRows == 3

\* self.soup holds a page of up to MaxRows of the result rows
ExtractInit ==
  /\ op = "get_product_info"
  /\ args = <<>>
  /\ ret = Pending
  /\ pc = "call"
  /\ work = NoWork
  /\ soup \in SeqUpTo({RowExact, RowNear, RowExactDear, RowWeak, RowNone,
                       RowNoPrice}, MaxRows)
  /\ page_number = 0
  /\ ramp_down = 0
  /\ consecutively_empty = 0
  /\ filtered_prices_descriptions = <<>>
  /\ descriptions = <<>>
  /\ prices = <<>>
  /\ shipping = <<>>
  /\ countries = <<>>
  /\ conditions = <<>>
  /\ similarities = <<>>
  /\ fetch_log = <<>>
  /\ filter_log = <<>>

ExtractCall ==
  /\ op = "get_product_info" /\ pc = "call"
  /\ \E product_info \in {get_product_info(soup)} :
       ret' = Return(product_info)
  /\ pc' = "done"
  /\ UNCHANGED <<op, args, work, search_vars>>

SpecExtract == ExtractInit /\ [][ExtractCall]_vars

\* the record made of one raw row alone
C19_RecordOf(row) ==
  [title     |-> clean_text(Lower(row.title)),
   price     |-> PyFloat(FloatCents(RemoveCommas(PriceMatch(row.price)))),
   shipping  |-> PyFloat(get_product_shipping(<<row>>)[1]),
   country   |-> RemoveFrom(row.country),
   condition |-> row.condition]

\* C19: a row whose price text holds no number contributes no record, and
\* every record holds the title, price, shipping, country and condition of
\* one and the same raw row: the records are those of the priced rows, in
\* page order.
C19_UnpricedRowExcludedWhole ==
  (op = "get_product_info" /\ pc = "done") =>
    LET priced == SelectSeq(soup, LAMBDA row : PriceMatch(row.price) # <<>>)
    IN  ret.value = [k \in DOMAIN priced |-> C19_RecordOf(priced[k])]

(***************************************************************************)
(* EbayScraper.remove_outliers called on five parallel lists.  A title,    *)
(* shipping cost, country and condition is a number derived from the       *)
(* position of its row; prices are whole amounts around 1000 with up to    *)
(* three rows at another price.  The lists are just below, at and just     *)
(* above removal_threshold, or short.                                      *)
(***************************************************************************)
RemoveInit ==
  /\ op = "remove_outliers"
  /\ \E n \in {2, removal_threshold - 1, removal_threshold,
               removal_threshold + 1} :
     \E spots \in SUBSET {1, 2, removal_threshold} :
     \E other \in {1100, 5000, 100000} :
     \E spread \in {0, 100} :
       args = [titles     |-> [i \in 1..n |-> i],
               prices     |-> [i \in 1..n |->
                                 IF i \in spots THEN other
                                 ELSE 1000 + spread * (i % 3)],
               shipping   |-> [i \in 1..n |-> 2 * i],
               countries  |-> [i \in 1..n |-> i % 3],
               conditions |-> [i \in 1..n |-> i % 2]]
  /\ ret = Pending
  /\ pc = "call"
  /\ work = NoWork
  /\ IdleSearch

RemoveCall ==
  /\ op = "remove_outliers" /\ pc = "call"
  /\ \E lists \in {remove_outliers(args.titles, args.prices, args.shipping,
                                   args.countries, args.conditions)} :
       ret' = Return(lists)
  /\ pc' = "done"
  /\ UNCHANGED <<op, args, work, search_vars>>

SpecRemove == RemoveInit /\ [][RemoveCall]_vars

\* C20: below 100 candidates the five lists come back as they were; from
\* 100 on, the rows left are exactly those whose position
\* reject_outliers(prices, 1.5) does not return, in their original order,
\* and each row keeps its own price, shipping, country and condition, so
\* the five lists stay of one length and aligned.
C20_RemoveOutliersFrame ==
  (op = "remove_outliers" /\ pc = "done") =>
    \E n \in {Len(args.titles)} :
    \E rejected \in {Range(reject_outliers(args.prices, OutlierM))} :
    \E kept \in {ret.value[1]} :
      /\ ret.exc = "none"
      /\ n < 100 => ret.value = <<args.titles, args.prices, args.shipping,
                                  args.countries, args.conditions>>
      /\ n >= 100 =>
           /\ \A j \in 1..(Len(kept) - 1) : kept[j] < kept[j + 1]
           /\ Range(kept) = {i \in 1..n : (i - 1) \notin rejected}
           /\ \A k \in 2..5 : Len(ret.value[k]) = Len(kept)
           /\ \A j \in DOMAIN kept :
                /\ ret.value[2][j] = args.prices[kept[j]]
                /\ ret.value[3][j] = args.shipping[kept[j]]
                /\ ret.value[4][j] = args.countries[kept[j]]
                /\ ret.value[5][j] = args.conditions[kept[j]]

\* C20 witness: of exactly 100 candidates some, not the first, were removed
C20_Witness ==
  /\ op = "remove_outliers" /\ pc = "done"
  /\ Len(args.titles) = 100
  /\ Len(ret.value[1]) = 98
  /\ ret.value[1][1] = 1 /\ ret.value[1][2] = 3
  /\ ret.value[3][2] = 6

(***************************************************************************)
(* find_viable_product when the fetch may also return two further pages    *)
(***************************************************************************)
\* "abc" at $20.00, then "abc" at $3.00 whose shipping element reads
\* "+$5.00 to $10.00"
RangePage ==
  << RowExact,
     RawRow(<<"a", "b", "c">>, <<"$", "3", ".", "0", "0">>,
            <<"+", "$", "5", ".", "0", "0", " ", "t", "o", " ", "$", "1",
              "0", ".", "0", "0">>, TxtFromUS, TxtNew) >>

\* "abcx" at $1,000.00 and "xabc" at $20.00: both of similarity 6/7 to "abc"
TiePage ==
  << RawRow(<<"a", "b", "c", "x">>,
            <<"$", "1", ",", "0", "0", "0", ".", "0", "0">>,
            TxtFree, TxtFromUS, TxtNew),
     RawRow(<<"x", "a", "b", "c">>, <<"$", "2", "0", ".", "0", "0">>,
            TxtFree, TxtFromUS, TxtUsed) >>

\* self.create_url() returns and the page loaded is one of the two
CreateUrlOdd ==
  /\ op = "find_viable_product" /\ pc = "create_url"
  /\ \E page \in {RangePage, TiePage} :
       /\ soup' = page
       /\ fetch_log' = Append(fetch_log, [start |-> page_number, ok |-> TRUE,
                                          rows |-> Len(page)])
  /\ pc' = "base"
  /\ UNCHANGED <<op, args, ret, work, page_number, ramp_down,
                 consecutively_empty, filtered_prices_descriptions,
                 descriptions, prices, shipping, countries, conditions,
                 similarities, filter_log>>

SpecAnyPage == SearchInit /\ [][Next \/ CreateUrlOdd]_vars

\* C21: with an initial ramp_down >= 0, every threshold passed to the filter
\* lies in [0, 0.35], and the search ends with a result, with
\* NoProductsFound or with the propagated fetch failure, never with
\* InvalidSimilarityThreshold or any other failure.
C21_OnlyEmptyOrFetchFailures ==
  (op = "find_viable_product" /\ args.ramp_down >= 0) =>
    /\ \A i \in DOMAIN filter_log :
         /\ 0 <= filter_log[i].threshold
         /\ filter_log[i].threshold <= BaseThreshold
    /\ ret.exc \in {"pending", "none", "NoProductsFound",
                    "ScraperRequestError"}

(***************************************************************************)
(* The flow of views.Index.post up to the selection: the candidates built  *)
(* from the lists of the search go to lowest_price_highest_similarity      *)
(***************************************************************************)
\* best_product = shopping_instance.lowest_price_highest_similarity(candidates)
FlowSelect ==
  /\ op = "find_viable_product" /\ pc = "constructed"
  /\ \E best_product \in {lowest_price_highest_similarity(work.acc)} :
       work' = [i |-> work.i, acc |-> work.acc, best |-> best_product]
  /\ pc' = "selected"
  /\ UNCHANGED <<op, args, ret, search_vars>>

SpecEndToEnd ==
  SearchInit /\ [][Next \/ CreateUrlOdd \/ FlowConstruct \/ FlowSelect]_vars

\* C22: in the flow search, construct_candidates, selection, the price of
\* the selected entry, read as a number, is the least of the prices of the
\* candidates whose similarity is the maximum.
C22_WinnerPriceNumericallyMinimal ==
  (op = "find_viable_product" /\ pc = "selected"
     /\ work.best.exc = "none") =>
    \A i \in DOMAIN work.acc :
      (\A j \in DOMAIN work.acc :
         ~SimGreater(work.acc[j][2].similarity, work.acc[i][2].similarity))
      => ParseMoney(work.best.value[2].price)
           <= ParseMoney(work.acc[i][2].price)

====
